---- MODULE Spec2Model ----
(***************************************************************************)
(* Model of the transport layer (device_io.py) and of the text-sentence    *)
(* read loop (nmea/nmea.py) of the NMEA/Seatalk multiplexer.               *)
(*                                                                         *)
(* The program runs on a single-threaded cooperative scheduler: a task     *)
(* runs until it suspends (lock held by another task, queue.get on an      *)
(* empty queue, queue.put on a full queue, socket recv/sendall/connect,    *)
(* sleep, waiting for another task to terminate).  One action of the model *)
(* is one such slice of one task; the scheduler's choice of the next ready *)
(* task is the nondeterminism of Next.                                     *)
(***************************************************************************)
EXTENDS Integers, Sequences, FiniteSets, TLC

\* ---------------------------------------------------------------- bounds
\* capacity of _read_queue and _write_queue (1000 in the program)
read_write_size == 2
\* connections (client sockets) the instance sees during a run
MaxConns == 2
\* inbound bytes the peers deliver during a run
MaxBytes == 3
\* longest chunk one recv() returns
MaxChunkLen == 2
\* write() calls during a run
MaxWrites == 3
\* longest read(length) request
MaxReadLen == 2
\* cancel() calls during a run
MaxCancels == 2

\* lines _receive_until_new_line returns during a run
MaxLines == 3
\* longest line, the newline included
MaxLineLen == 3
\* capacity of the Device's output queue (1000 in the program)
DeviceQueueSize == 3
\* longest content of the file of a File transport
MaxFileLen == 4
\* largest value of File._last_index
MaxIndex == 6
\* frames put on the byte stream of a SeatalkDevice during a run
MaxFrames == 2

\* tasks that call read() and write() on the instance
Callers == {1, 2}
Conns == 1..MaxConns
\* _write_task_handle = None, _serve_client_task = None
None == 0

VARIABLES
    kind,               \* "server" (TCPServer) or "client" (TCPClient)
    initialized,        \* initialize() has run
    acceptLoop,         \* task running curio.tcp_server: "none" | "running"
    sup,                \* TCPClient._serve_client_task: "none" (the field is None), or the position of the
                        \* task running _open_connection
    supPending,         \* cancellation of the supervisor: "none", or requested while it
                        \* was suspended ("blocked") or while it was ready to run ("ready")
    nconn,              \* client sockets created so far; socket c is Conns element c
    spc,                \* per socket: position of its _serve_client invocation
    sExc,               \* exception in flight while _serve_client is in its finally block
    sWait,              \* the task whose termination the finally block awaits
    closed,             \* per socket: client.close() has been called on it
    clients,            \* self.clients
    write_task_handle,  \* self._write_task_handle (None, or the socket whose session spawned it)
    wt,                 \* per _write_task (named by the session that spawned it): position
    wPending,           \* per _write_task: cancellation requested, not yet delivered
    wData,              \* per _write_task: chunk taken from the write queue
    wIdx,               \* per _write_task: index into self.clients of the peer being sent to
    wTarget,            \* per _write_task: the peer of the sendall in progress
    read_queue,         \* self._read_queue, a sequence of chunks
    temp_read_block,    \* self._temp_read_block (None is modelled as the empty chunk)
    write_queue,        \* self._write_queue
    lockHolder,         \* self._read_write_lock: owner, or None
    lockWaiting,        \* tasks suspended in Lock.acquire, in arrival order
    cpc,                \* per caller: position inside IO.read / IO.write
    cRem,               \* per caller inside _read: loop iterations left
    cBuf,               \* per caller inside _read: byte_array
    cData,              \* per caller inside write: data
    cLen,               \* per caller inside read: the length argument
    enqueued,           \* history: the bytes put into the read queue, in put order
    returned,           \* history: the read() calls that have returned, in that order
    xpc,                \* the task calling cancel(): "idle" | "wait" | "raised"
    cancels,            \* cancel() calls that have returned
    nbytes,             \* inbound bytes delivered so far (byte k has value k)
    nwrites,            \* write() calls so far (call k writes chunk k)
    rdrops,             \* inbound chunks discarded because the read queue was full
    wdrops,             \* write() calls discarded because the write queue was full
    npc,                \* NMEADevice._read_task: "read" | "put1" | "put2" | "dead"
    received,           \* _receive_until_new_line: the characters accumulated
    lines,              \* history: the lines _receive_until_new_line has returned
    dev_read_queue,     \* the Device's output queue (self._read_queue of the Device)
    published,          \* history: the lines put into the output queue, in order
    flushes,            \* history: calls of _io_device.flush()
    file_content,       \* File: the bytes of the file at _path_to_file
    last_index,         \* File._last_index
    file_returned,      \* history: the bytes the reads of the File have returned, in order
    st_bytes,           \* SeatalkDevice: the bytes its transport has still to deliver
    st_fed,             \* history: the frames put on the stream, and the datagram encoded if any
    st_out              \* history: the outcomes of receive_data_gram, with the frame taken

tcpVars ==
    <<kind, initialized, acceptLoop, sup, supPending, nconn, spc, sExc, sWait,
      closed, clients, write_task_handle, wt, wPending, wData, wIdx, wTarget,
      read_queue, temp_read_block, write_queue, lockHolder, lockWaiting,
      cpc, cRem, cBuf, cData, cLen, enqueued, returned, xpc, cancels, nbytes,
      nwrites, rdrops, wdrops>>

nmeaVars == <<npc, received, lines, dev_read_queue, published, flushes>>

fileVars == <<file_content, last_index, file_returned>>

\* the variables of the components beside the socket transport and the
\* NMEADevice
stVars == <<st_bytes, st_fed, st_out>>

otherVars == <<fileVars, stVars>>

vars == <<tcpVars, nmeaVars, otherVars>>

\* groups used in UNCHANGED clauses
lifeVars == <<kind, initialized, acceptLoop>>
serveVars == <<spc, sExc, sWait>>
wtaskVars == <<wt, wPending, wData, wIdx, wTarget>>
lockVars == <<lockHolder, lockWaiting>>
callerVars == <<cpc, cRem, cBuf, cData, cLen>>
readLog == <<enqueued, returned>>
cancelVars == <<xpc, cancels>>

\* ------------------------------------------------------------- helpers
\* list.remove(x): drop the first occurrence of x
RECURSIVE ListRemove(_, _)
ListRemove(s, x) ==
    IF s = <<>> THEN <<>>
    ELSE IF Head(s) = x THEN Tail(s)
    ELSE <<Head(s)>> \o ListRemove(Tail(s), x)

InList(s, x) == \E i \in 1..Len(s) : s[i] = x

\* curio.Queue.full() of the two transport queues
ReadQueueFullMut == FALSE

ReadQueueFull == Len(read_queue) >= read_write_size

WriteQueueFull == Len(write_queue) >= read_write_size

\* a task the scheduler can still run
WtAlive(w) == wt[w] \in {"get", "send"}

\* Task.terminated: cancelled, or died of an exception
WtDone(w) == wt[w] \in {"term", "crashed"}

ServeAlive(c) == spc[c] \in {"start", "recv", "put_wait", "fin_wait"}

SupAlive == sup \in {"connecting", "serving", "sleeping"}

\* the exceptions _open_connection catches
ConnectionClassMut(exc) == exc \in {"TaskTimeout"}

ConnectionClass(exc) == exc \in {"OSError"}


\* ---------------------------------------------------------------- Init
TcpInit ==
    /\ kind \in {"server", "client"}
    /\ initialized = FALSE
    /\ acceptLoop = "none"
    /\ sup = "none"
    /\ supPending = "none"
    /\ nconn = 0
    /\ spc = [c \in Conns |-> "unused"]
    /\ sExc = [c \in Conns |-> "none"]
    /\ sWait = [c \in Conns |-> None]
    /\ closed = [c \in Conns |-> FALSE]
    /\ clients = <<>>
    /\ write_task_handle = None
    /\ wt = [c \in Conns |-> "none"]
    /\ wPending = [c \in Conns |-> FALSE]
    /\ wData = [c \in Conns |-> 0]
    /\ wIdx = [c \in Conns |-> 0]
    /\ wTarget = [c \in Conns |-> None]
    /\ read_queue = <<>>
    /\ temp_read_block = <<>>
    /\ write_queue = <<>>
    /\ lockHolder = None
    /\ lockWaiting = <<>>
    /\ cpc = [t \in Callers |-> "idle"]
    /\ cRem = [t \in Callers |-> 0]
    /\ cBuf = [t \in Callers |-> <<>>]
    /\ cData = [t \in Callers |-> 0]
    /\ cLen = [t \in Callers |-> 0]
    /\ enqueued = <<>>
    /\ returned = <<>>
    /\ xpc = "idle"
    /\ cancels = 0
    /\ nbytes = 0
    /\ nwrites = 0
    /\ rdrops = 0
    /\ wdrops = 0

NmeaInit ==
    /\ npc = "read"
    /\ received = <<>>
    /\ lines = <<>>
    /\ dev_read_queue = <<>>
    /\ published = <<>>
    /\ flushes = 0

\* ------------------------------------------- initialize(), connections
\* TCPServer.initialize spawns the accept loop and keeps no handle of it;
\* TCPClient.initialize spawns _open_connection and stores the task.
Initialize ==
    /\ ~initialized
    /\ xpc = "idle"
    /\ cancels = 0
    /\ initialized' = TRUE
    /\ acceptLoop' = IF kind = "server" THEN "running" ELSE acceptLoop
    /\ sup' = IF kind = "client" THEN "connecting" ELSE sup
    /\ UNCHANGED <<otherVars, nmeaVars, readLog, kind, supPending, nconn, serveVars, closed, clients,
                   write_task_handle, wtaskVars, read_queue, temp_read_block,
                   write_queue, lockVars, callerVars, cancelVars, nbytes,
                   nwrites, rdrops, wdrops>>

\* the accept loop of curio.tcp_server accepts a peer and spawns a task
\* running _serve_client for it; the new task has not run yet
Accept ==
    /\ kind = "server"
    /\ acceptLoop = "running"
    /\ nconn < MaxConns
    /\ nconn' = nconn + 1
    /\ spc' = [spc EXCEPT ![nconn + 1] = "start"]
    /\ UNCHANGED <<otherVars, nmeaVars, readLog, lifeVars, sup, supPending, sExc, sWait, closed, clients,
                   write_task_handle, wtaskVars, read_queue, temp_read_block,
                   write_queue, lockVars, callerVars, cancelVars, nbytes,
                   nwrites, rdrops, wdrops>>

\* _serve_client up to its first recv: spawn _write_task, overwrite the
\* single handle field, append the peer
StartSession(c) ==
    /\ wt' = [wt EXCEPT ![c] = "get"]
    /\ write_task_handle' = c
    /\ clients' = Append(clients, c)
    /\ spc' = [spc EXCEPT ![c] = "recv"]

ServeStart(c) ==
    /\ spc[c] = "start"
    /\ StartSession(c)
    /\ UNCHANGED <<otherVars, nmeaVars, readLog, lifeVars, sup, supPending, nconn, sExc, sWait, closed,
                   wPending, wData, wIdx, wTarget, read_queue,
                   temp_read_block, write_queue, lockVars, callerVars,
                   cancelVars, nbytes, nwrites, rdrops, wdrops>>

\* _open_connection: open_connection succeeds and _serve_client starts in
\* the same task
ConnectOk ==
    /\ kind = "client"
    /\ sup = "connecting"
    /\ supPending = "none"
    /\ nconn < MaxConns
    /\ nconn' = nconn + 1
    /\ StartSession(nconn + 1)
    /\ sup' = "serving"
    /\ UNCHANGED <<otherVars, nmeaVars, readLog, lifeVars, supPending, sExc, sWait, closed, wPending, wData,
                   wIdx, wTarget, read_queue, temp_read_block, write_queue,
                   lockVars, callerVars, cancelVars, nbytes, nwrites, rdrops,
                   wdrops>>

\* where _open_connection goes when exc leaves its try block
AfterException(exc) ==
    IF ConnectionClass(exc) THEN "sleeping" ELSE "terminated"

\* open_connection raises (timeout, refusal, OSError)
ConnectFail ==
    /\ kind = "client"
    /\ sup = "connecting"
    /\ supPending = "none"
    /\ sup' = AfterException("OSError")
    /\ UNCHANGED <<otherVars, nmeaVars, readLog, lifeVars, supPending, nconn, serveVars, closed, clients,
                   write_task_handle, wtaskVars, read_queue, temp_read_block,
                   write_queue, lockVars, callerVars, cancelVars, nbytes,
                   nwrites, rdrops, wdrops>>

\* curio.sleep(1) ends, the while loop makes the next attempt
BackoffDone ==
    /\ kind = "client"
    /\ sup = "sleeping"
    /\ supPending = "none"
    /\ sup' = "connecting"
    /\ UNCHANGED <<otherVars, nmeaVars, readLog, lifeVars, supPending, nconn, serveVars, closed, clients,
                   write_task_handle, wtaskVars, read_queue, temp_read_block,
                   write_queue, lockVars, callerVars, cancelVars, nbytes,
                   nwrites, rdrops, wdrops>>


\* ---------------------------------------------------- _serve_client
\* the task running session c may take its next step: the supervisor of a
\* TCPClient with a cancellation pending takes the cancellation instead
CanRun(c) == kind = "client" => supPending = "none"

\* _serve_client returns or raises exc: a server peer task ends, the
\* supervisor of a client goes on in _open_connection
ExitServe(c, exc) ==
    /\ spc' = [spc EXCEPT ![c] = "done"]
    /\ sup' = IF kind = "client"
              THEN (IF exc = "none" THEN "connecting" ELSE AfterException(exc))
              ELSE sup

\* the finally block: Task.cancel() of whatever task the handle field names
\* now (it returns at once if that task has terminated, else it requests
\* the cancellation and waits for the task to end), then clients.remove
Finally(c, exc) ==
    IF WtDone(write_task_handle)
    THEN /\ clients' = ListRemove(clients, c)
         /\ ExitServe(c, exc)
         /\ UNCHANGED <<wPending, sExc, sWait>>
    ELSE /\ wPending' = [wPending EXCEPT ![write_task_handle] = TRUE]
         /\ spc' = [spc EXCEPT ![c] = "fin_wait"]
         /\ sExc' = [sExc EXCEPT ![c] = exc]
         /\ sWait' = [sWait EXCEPT ![c] = write_task_handle]
         /\ UNCHANGED <<clients, sup>>

\* recv returns a chunk of n bytes: dropped if the read queue is full, else
\* put (Queue.put suspends the caller when the queue is at capacity)
RecvData(c, n) ==
    /\ spc[c] = "recv"
    /\ CanRun(c)
    /\ ~closed[c]
    /\ nbytes + n <= MaxBytes
    /\ nbytes' = nbytes + n
    /\ IF ReadQueueFull
       THEN /\ rdrops' = rdrops + 1
            /\ UNCHANGED <<read_queue, enqueued, spc>>
       ELSE IF Len(read_queue) < read_write_size
       THEN /\ read_queue' = Append(read_queue, [i \in 1..n |-> nbytes + i])
            /\ enqueued' = enqueued \o [i \in 1..n |-> nbytes + i]
            /\ UNCHANGED <<rdrops, spc>>
       ELSE /\ spc' = [spc EXCEPT ![c] = "put_wait"]
            /\ UNCHANGED <<rdrops, read_queue, enqueued>>
    /\ UNCHANGED <<otherVars, nmeaVars, returned, lifeVars, sup, supPending, nconn, sExc, sWait, closed,
                   clients, write_task_handle, wtaskVars, temp_read_block,
                   write_queue, lockVars, callerVars, cancelVars, nwrites,
                   wdrops>>

\* recv returns no data: the peer disconnected
RecvEOF(c) ==
    /\ spc[c] = "recv"
    /\ CanRun(c)
    /\ ~closed[c]
    /\ Finally(c, "none")
    /\ UNCHANGED <<otherVars, nmeaVars, readLog, lifeVars, supPending, nconn, closed, write_task_handle, wt,
                   wData, wIdx, wTarget, read_queue, temp_read_block,
                   write_queue, lockVars, callerVars, cancelVars, nbytes,
                   nwrites, rdrops, wdrops>>

\* recv raises (connection error, or the socket was closed under it):
\* except Exception closes the client and re-raises
RecvError(c) ==
    /\ spc[c] = "recv"
    /\ CanRun(c)
    /\ closed' = [closed EXCEPT ![c] = TRUE]
    /\ Finally(c, "OSError")
    /\ UNCHANGED <<otherVars, nmeaVars, readLog, lifeVars, supPending, nconn, write_task_handle, wt, wData,
                   wIdx, wTarget, read_queue, temp_read_block, write_queue,
                   lockVars, callerVars, cancelVars, nbytes, nwrites, rdrops,
                   wdrops>>

\* the awaited write task has ended: the finally block goes on.  A
\* supervisor whose cancellation was requested after that (it was ready to
\* run, not suspended) finishes the block and gets TaskCancelled at its next
\* suspension point, which is open_connection or sleep in _open_connection.
FinResume(c) ==
    /\ spc[c] = "fin_wait"
    /\ kind = "client" => supPending \in {"none", "ready"}
    /\ WtDone(sWait[c])
    /\ clients' = ListRemove(clients, c)
    /\ IF kind = "client" /\ supPending = "ready"
       THEN /\ spc' = [spc EXCEPT ![c] = "done"]
            /\ sup' = AfterException("Cancelled")
            /\ supPending' = "none"
       ELSE /\ ExitServe(c, sExc[c])
            /\ UNCHANGED supPending
    /\ UNCHANGED <<otherVars, nmeaVars, readLog, lifeVars, nconn, sExc, sWait, closed,
                   write_task_handle, wtaskVars, read_queue, temp_read_block,
                   write_queue, lockVars, callerVars, cancelVars, nbytes,
                   nwrites, rdrops, wdrops>>

\* TaskCancelled is raised in the supervisor at the point where it is
\* suspended: in open_connection or sleep it leaves _open_connection; in
\* recv it passes through except and finally of _serve_client; inside the
\* finally block (awaiting the write task) it leaves the block at once,
\* skipping clients.remove.  The scheduler runs ready tasks in the order
\* they became ready, so the write task, made ready by the finally block's
\* own cancel request, has ended before the supervisor runs again.
SupCancelled ==
    /\ kind = "client"
    /\ supPending = "blocked"
    /\ SupAlive
    /\ sup = "serving" /\ spc[nconn] = "fin_wait" => WtDone(sWait[nconn])
    /\ supPending' = "none"
    /\ IF sup \in {"connecting", "sleeping"}
       THEN /\ sup' = AfterException("Cancelled")
            /\ UNCHANGED <<serveVars, closed, clients, wPending>>
       ELSE IF spc[nconn] = "fin_wait"
       THEN /\ spc' = [spc EXCEPT ![nconn] = "done"]
            /\ sup' = AfterException("Cancelled")
            /\ UNCHANGED <<sExc, sWait, closed, clients, wPending>>
       ELSE /\ closed' = [closed EXCEPT ![nconn] = TRUE]
            /\ Finally(nconn, "Cancelled")
    /\ UNCHANGED <<otherVars, nmeaVars, readLog, lifeVars, nconn, write_task_handle, wt, wData, wIdx,
                   wTarget, read_queue, temp_read_block, write_queue,
                   lockVars, callerVars, cancelVars, nbytes, nwrites, rdrops,
                   wdrops>>

\* ------------------------------------------------------ _write_task
\* queue.get returns a chunk and the for loop starts on self.clients
WGet(w) ==
    /\ wt[w] = "get"
    /\ write_queue # <<>>
    /\ write_queue' = Tail(write_queue)
    /\ IF clients = <<>>
       THEN UNCHANGED <<wt, wData, wIdx, wTarget>>
       ELSE /\ wt' = [wt EXCEPT ![w] = "send"]
            /\ wData' = [wData EXCEPT ![w] = Head(write_queue)]
            /\ wIdx' = [wIdx EXCEPT ![w] = 1]
            /\ wTarget' = [wTarget EXCEPT ![w] = clients[1]]
    /\ UNCHANGED <<otherVars, nmeaVars, readLog, lifeVars, sup, supPending, nconn, serveVars, closed,
                   clients, write_task_handle, wPending, read_queue,
                   temp_read_block, lockVars, callerVars, cancelVars, nbytes,
                   nwrites, rdrops, wdrops>>

\* sendall to the current peer completes; the list iterator moves on
WSendDone(w) ==
    /\ wt[w] = "send"
    /\ ~closed[wTarget[w]]
    /\ IF wIdx[w] + 1 <= Len(clients)
       THEN /\ wIdx' = [wIdx EXCEPT ![w] = wIdx[w] + 1]
            /\ wTarget' = [wTarget EXCEPT ![w] = clients[wIdx[w] + 1]]
            /\ UNCHANGED <<wt, wData>>
       ELSE /\ wt' = [wt EXCEPT ![w] = "get"]
            /\ wData' = [wData EXCEPT ![w] = 0]
            /\ wIdx' = [wIdx EXCEPT ![w] = 0]
            /\ wTarget' = [wTarget EXCEPT ![w] = None]
    /\ UNCHANGED <<otherVars, nmeaVars, readLog, lifeVars, sup, supPending, nconn, serveVars, closed,
                   clients, write_task_handle, wPending, read_queue,
                   temp_read_block, write_queue, lockVars, callerVars,
                   cancelVars, nbytes, nwrites, rdrops, wdrops>>

\* the write task ends in state how ("term": cancelled, "crashed": an
\* exception left it)
WtEnd(w, how) ==
    /\ wt' = [wt EXCEPT ![w] = how]
    /\ wPending' = [wPending EXCEPT ![w] = FALSE]
    /\ wData' = [wData EXCEPT ![w] = 0]
    /\ wIdx' = [wIdx EXCEPT ![w] = 0]
    /\ wTarget' = [wTarget EXCEPT ![w] = None]

\* sendall raises (broken or closed socket); nothing in _write_task
\* catches it and the task dies
WSendFail(w) ==
    /\ wt[w] = "send"
    /\ WtEnd(w, "crashed")
    /\ UNCHANGED <<otherVars, nmeaVars, readLog, lifeVars, sup, supPending, nconn, serveVars, closed,
                   clients, write_task_handle, read_queue, temp_read_block,
                   write_queue, lockVars, callerVars, cancelVars, nbytes,
                   nwrites, rdrops, wdrops>>

\* a requested cancellation is delivered where the write task is suspended
WCancelled(w) ==
    /\ WtAlive(w)
    /\ wPending[w]
    /\ WtEnd(w, "term")
    /\ UNCHANGED <<otherVars, nmeaVars, readLog, lifeVars, sup, supPending, nconn, serveVars, closed,
                   clients, write_task_handle, read_queue, temp_read_block,
                   write_queue, lockVars, callerVars, cancelVars, nbytes,
                   nwrites, rdrops, wdrops>>


\* ------------------------------------------- IO.read / IO.write, lock
\* curio.Lock: acquire suspends the caller iff the lock is held
LockAcquiredMut == FALSE

LockAcquired == lockHolder # None

\* Lock.release: with tasks waiting, the first is woken and owns the lock
\* from then on; otherwise the lock becomes free.  pcs is cpc after the
\* releasing caller's own update.
ReleaseLock(pcs) ==
    IF lockWaiting = <<>>
    THEN /\ lockHolder' = None
         /\ lockWaiting' = lockWaiting
         /\ cpc' = pcs
    ELSE /\ lockHolder' = Head(lockWaiting)
         /\ lockWaiting' = Tail(lockWaiting)
         /\ cpc' = [pcs EXCEPT ![Head(lockWaiting)] =
                        IF pcs[Head(lockWaiting)] = "r_lock" THEN "r_in" ELSE "w_in"]

\* data = self._temp_read_block[:1]
First(block) == SubSeq(block, 1, 1)

\* self._temp_read_block = self._temp_read_block[1:]
RestMut(block) == block

Rest(block) == SubSeq(block, 2, Len(block))

\* TCP._read: the for loop over range(length), run until it has to suspend
\* in _read_queue.get() or is done.  rem iterations are left, buf is
\* byte_array, temp is _temp_read_block, q is the read queue.
RECURSIVE ReadLoop(_, _, _, _)
ReadLoop(rem, buf, temp, q) ==
    IF rem = 0
    THEN [blocked |-> FALSE, rem |-> 0, buf |-> buf, temp |-> temp, q |-> q]
    ELSE IF temp = <<>> /\ q = <<>>
    THEN [blocked |-> TRUE, rem |-> rem, buf |-> buf, temp |-> temp, q |-> q]
    ELSE IF temp = <<>>
    THEN ReadLoop(rem - 1, buf \o First(Head(q)), Rest(Head(q)), Tail(q))
    ELSE ReadLoop(rem - 1, buf \o First(temp), Rest(temp), q)

\* caller t, owning the lock, runs _read for read(n); at the end of _read
\* the lock is released and read returns byte_array
RunRead(t, n, rem, buf) ==
    LET r == ReadLoop(rem, buf, temp_read_block, read_queue) IN
    /\ temp_read_block' = r.temp
    /\ read_queue' = r.q
    /\ IF r.blocked
       THEN /\ cpc' = [cpc EXCEPT ![t] = "r_get"]
            /\ cRem' = [cRem EXCEPT ![t] = r.rem]
            /\ cBuf' = [cBuf EXCEPT ![t] = r.buf]
            /\ cLen' = [cLen EXCEPT ![t] = n]
            /\ lockHolder' = t
            /\ UNCHANGED <<lockWaiting, returned>>
       ELSE /\ cRem' = [cRem EXCEPT ![t] = 0]
            /\ cBuf' = [cBuf EXCEPT ![t] = <<>>]
            /\ cLen' = [cLen EXCEPT ![t] = 0]
            /\ returned' = Append(returned,
                                  [caller |-> t, length |-> n, data |-> r.buf])
            /\ ReleaseLock([cpc EXCEPT ![t] = "idle"])

\* read(length) is called
ReadCall(t, n) ==
    /\ cpc[t] = "idle"
    /\ IF LockAcquired
       THEN /\ lockWaiting' = Append(lockWaiting, t)
            /\ cpc' = [cpc EXCEPT ![t] = "r_lock"]
            /\ cRem' = [cRem EXCEPT ![t] = n]
            /\ cLen' = [cLen EXCEPT ![t] = n]
            /\ UNCHANGED <<lockHolder, cBuf, read_queue, temp_read_block,
                           returned>>
       ELSE RunRead(t, n, n, <<>>)
    /\ UNCHANGED <<otherVars, nmeaVars, enqueued, lifeVars, sup, supPending, nconn, serveVars, closed,
                   clients, write_task_handle, wtaskVars, write_queue, cData,
                   cancelVars, nbytes, nwrites, rdrops, wdrops>>

\* a reader that was handed the lock starts _read, or a reader suspended
\* in _read_queue.get() is woken by a put
ReadResume(t) ==
    /\ \/ cpc[t] = "r_in"
       \/ cpc[t] = "r_get" /\ read_queue # <<>>
    /\ RunRead(t, cLen[t], cRem[t], cBuf[t])
    /\ UNCHANGED <<otherVars, nmeaVars, enqueued, lifeVars, sup, supPending, nconn, serveVars, closed,
                   clients, write_task_handle, wtaskVars, write_queue, cData,
                   cancelVars, nbytes, nwrites, rdrops, wdrops>>

\* caller t, owning the lock, runs TCP._write(data) and releases the lock
RunWrite(t, data) ==
    IF WriteQueueFull
    THEN /\ wdrops' = wdrops + 1
         /\ cData' = [cData EXCEPT ![t] = 0]
         /\ ReleaseLock([cpc EXCEPT ![t] = "idle"])
         /\ UNCHANGED write_queue
    ELSE IF Len(write_queue) < read_write_size
    THEN /\ write_queue' = Append(write_queue, data)
         /\ cData' = [cData EXCEPT ![t] = 0]
         /\ ReleaseLock([cpc EXCEPT ![t] = "idle"])
         /\ UNCHANGED wdrops
    ELSE /\ cpc' = [cpc EXCEPT ![t] = "w_put"]
         /\ cData' = [cData EXCEPT ![t] = data]
         /\ lockHolder' = t
         /\ UNCHANGED <<lockWaiting, write_queue, wdrops>>

\* write(data) is called
WriteCall(t) ==
    /\ cpc[t] = "idle"
    /\ nwrites < MaxWrites
    /\ nwrites' = nwrites + 1
    /\ IF LockAcquired
       THEN /\ lockWaiting' = Append(lockWaiting, t)
            /\ cpc' = [cpc EXCEPT ![t] = "w_lock"]
            /\ cData' = [cData EXCEPT ![t] = nwrites + 1]
            /\ UNCHANGED <<lockHolder, write_queue, wdrops>>
       ELSE RunWrite(t, nwrites + 1)
    /\ UNCHANGED <<otherVars, nmeaVars, readLog, lifeVars, sup, supPending, nconn, serveVars, closed,
                   clients, write_task_handle, wtaskVars, read_queue,
                   temp_read_block, cRem, cBuf, cLen, cancelVars, nbytes,
                   rdrops>>

\* a writer that was handed the lock runs _write
WriteResume(t) ==
    /\ cpc[t] = "w_in"
    /\ RunWrite(t, cData[t])
    /\ UNCHANGED <<otherVars, nmeaVars, readLog, lifeVars, sup, supPending, nconn, serveVars, closed,
                   clients, write_task_handle, wtaskVars, read_queue,
                   temp_read_block, cRem, cBuf, cLen, cancelVars, nbytes,
                   nwrites, rdrops>>

\* ------------------------------------------------------------ cancel()
\* TCP.cancel closes every socket in self.clients.  TCPClient.cancel then
\* cancels _serve_client_task and waits for it to end: an attribute error
\* if the field is still None, an immediate return if the task has ended.
CancelOutcomeMut ==
    IF kind = "server" THEN "return"
    ELSE IF sup = "none" \/ sup = "terminated" THEN "raise"
    ELSE "wait"

CancelOutcome ==
    IF kind = "server" THEN "return"
    ELSE IF sup = "none" THEN "raise"
    ELSE IF sup = "terminated" THEN "return"
    ELSE "wait"

CancelCall ==
    /\ xpc = "idle"
    /\ cancels < MaxCancels
    /\ closed' = [c \in Conns |-> closed[c] \/ InList(clients, c)]
    /\ IF CancelOutcome = "return"
       THEN /\ cancels' = cancels + 1
            /\ UNCHANGED <<xpc, supPending>>
       ELSE IF CancelOutcome = "raise"
       THEN /\ xpc' = "raised"
            /\ UNCHANGED <<cancels, supPending>>
       ELSE /\ xpc' = "wait"
            /\ supPending' = IF sup = "serving" /\ spc[nconn] = "fin_wait"
                                 /\ WtDone(sWait[nconn])
                              THEN "ready" ELSE "blocked"
            /\ UNCHANGED cancels
    /\ UNCHANGED <<otherVars, nmeaVars, readLog, lifeVars, sup, nconn, serveVars, clients,
                   write_task_handle, wtaskVars, read_queue, temp_read_block,
                   write_queue, lockVars, callerVars, nbytes, nwrites, rdrops,
                   wdrops>>

\* the supervisor has terminated: TCPClient.cancel returns
CancelReturn ==
    /\ xpc = "wait"
    /\ sup = "terminated"
    /\ xpc' = "idle"
    /\ cancels' = cancels + 1
    /\ UNCHANGED <<otherVars, nmeaVars, readLog, lifeVars, sup, supPending, nconn, serveVars, closed,
                   clients, write_task_handle, wtaskVars, read_queue,
                   temp_read_block, write_queue, lockVars, callerVars, nbytes,
                   nwrites, rdrops, wdrops>>

\* ------------------------------------------- NMEADevice (nmea/nmea.py)
\* The bytes the Device's transport delivers: two payload characters, the
\* newline, and a byte the configured encoding cannot decode.
Chars == {"0", "1"}

NL == "nl"

Bad == "bad"

Bytes == Chars \cup {NL, Bad}

\* IO.read with an encoding set: the byte decoded to a one-character
\* string, or "" after UnicodeDecodeError
Decode(b) == IF b = Bad THEN <<>> ELSE <<b>>

Val(ch) == IF ch = "1" THEN 1 ELSE 0

RECURSIVE SumVal(_)
SumVal(str) == IF str = <<>> THEN 0 ELSE Val(Head(str)) + SumVal(Tail(str))

\* NMEADatagram.verify_checksum: the character before the newline is the
\* checksum of the characters before it
VerifyChecksum(line) ==
    /\ Len(line) >= 3
    /\ Val(line[Len(line) - 1]) = SumVal(SubSeq(line, 1, Len(line) - 2)) % 2

\* NMEADatagram.parse_nmea_sentence finds the tag in its table
TagKnown(line) == line[1] = "1"

\* what the two calls in the try block raise for a line
DecodeOutcome(line) ==
    IF ~VerifyChecksum(line) THEN "NMEAParseError"
    ELSE IF ~TagKnown(line) THEN "UnknownNMEATag"
    ELSE "ok"

\* except UnknownNMEATag: pass
InnerCaughtMut(exc) == FALSE

InnerCaught(exc) == exc = "UnknownNMEATag"

\* except NMEAParseError
OuterCaughtMut(exc) == FALSE

OuterCaught(exc) == exc = "NMEAParseError"

\* Queue.put on the Device's output queue: the item goes to the tail
QueuePutMut(q, item) == <<item>> \o q

QueuePut(q, item) == Append(q, item)

\* the put statements of _read_task from statement number stage on: the one
\* inside the try block (1), then the one after it (2).  Queue.put suspends
\* the task while the queue is at capacity.
RECURSIVE PutStages(_, _, _, _)
PutStages(stage, item, q, pub) ==
    IF stage > 2
    THEN [npc |-> "read", q |-> q, pub |-> pub]
    ELSE IF Len(q) >= DeviceQueueSize
    THEN [npc |-> IF stage = 1 THEN "put1" ELSE "put2", q |-> q, pub |-> pub]
    ELSE PutStages(stage + 1, item, QueuePut(q, item), Append(pub, item.line))

\* _read_task once _receive_until_new_line has returned line number k
HandleLine(k, line) ==
    LET exc == IF InnerCaught(DecodeOutcome(line)) THEN "ok" ELSE DecodeOutcome(line)
        r == PutStages(1, [line |-> k, data |-> line], dev_read_queue, published)
    IN  IF exc = "ok"
        THEN /\ npc' = r.npc
             /\ dev_read_queue' = r.q
             /\ published' = r.pub
             /\ UNCHANGED flushes
        ELSE IF OuterCaught(exc)
        THEN /\ flushes' = flushes + 1
             /\ UNCHANGED <<npc, dev_read_queue, published>>
        ELSE /\ npc' = "dead"
             /\ UNCHANGED <<flushes, dev_read_queue, published>>

\* one pass of the loop of _receive_until_new_line: read() returns the
\* decoded byte b; on the newline the line goes to _read_task
NmeaRead(b) ==
    /\ npc = "read"
    /\ Len(lines) < MaxLines
    /\ b # NL => Len(received) + Len(Decode(b)) < MaxLineLen
    /\ IF b = NL
       THEN /\ received' = <<>>
            /\ lines' = Append(lines, received \o Decode(b))
            /\ HandleLine(Len(lines) + 1, received \o Decode(b))
       ELSE /\ received' = received \o Decode(b)
            /\ UNCHANGED <<npc, lines, dev_read_queue, published, flushes>>
    /\ UNCHANGED <<otherVars, tcpVars>>

\* a put that was suspended at a full queue goes on
NmeaPutResume ==
    /\ npc \in {"put1", "put2"}
    /\ Len(dev_read_queue) < DeviceQueueSize
    /\ LET r == PutStages(IF npc = "put1" THEN 1 ELSE 2,
                          [line |-> Len(lines), data |-> lines[Len(lines)]],
                          dev_read_queue, published)
       IN  /\ npc' = r.npc
           /\ dev_read_queue' = r.q
           /\ published' = r.pub
    /\ UNCHANGED <<otherVars, tcpVars, received, lines, flushes>>

\* a consumer of the Device takes the oldest item
NmeaGet ==
    /\ dev_read_queue # <<>>
    /\ dev_read_queue' = Tail(dev_read_queue)
    /\ UNCHANGED <<otherVars, tcpVars, npc, received, lines, published, flushes>>

\* ------------------------------------------------ File (device_io.py)
\* File.__init__ on an existing, empty file
FileInit ==
    /\ file_content = <<>>
    /\ last_index = 0
    /\ file_returned = <<>>

Min(a, b) == IF a <= b THEN a ELSE b

\* the Python slice s[a:b] for 0 <= a <= b
Slice(s, a, b) == SubSeq(s, Min(a, Len(s)) + 1, Min(b, Len(s)))

\* File._read: read the whole file, return the slice at the cursor, move
\* the cursor by length
FileRead(length) ==
    /\ last_index + length <= MaxIndex
    /\ file_returned' =
           file_returned \o Slice(file_content, last_index, last_index + length)
    /\ last_index' = last_index + length
    /\ UNCHANGED <<file_content, stVars, tcpVars, nmeaVars>>

\* File._write: append data (n bytes; the byte at offset k has value k + 1)
FileWrite(n) ==
    /\ Len(file_content) + n <= MaxFileLen
    /\ file_content' =
           file_content \o [i \in 1..n |-> Len(file_content) + i]
    /\ UNCHANGED <<last_index, file_returned, stVars, tcpVars, nmeaVars>>

\* ---------------------------------------- binary frame codec (Seatalk)
\* The datagram types and their reference frames (tests/test_seatalk.py,
\* get_parameters): command byte, length-encoding byte, payload.
ReferenceFrames ==
    << [type |-> "Depth",               frame |-> <<0, 2, 0, 219, 2>>],
       [type |-> "EquipmentID",         frame |-> <<1, 5, 4, 186, 32, 40, 1, 0>>],
       [type |-> "ApparentWindAngle",   frame |-> <<16, 1, 1, 2>>],
       [type |-> "ApparentWindSpeed",   frame |-> <<17, 1, 18, 3>>],
       [type |-> "Speed",               frame |-> <<32, 1, 83, 0>>],
       [type |-> "WaterTemperature",    frame |-> <<35, 1, 17, 62>>],
       [type |-> "Speed2",              frame |-> <<38, 4, 7, 2, 0, 0, 0>>],
       [type |-> "WaterTemperature2",   frame |-> <<39, 1, 168, 4>>],
       [type |-> "SetLampIntensity",    frame |-> <<48, 0, 12>>],
       [type |-> "CancelMOB",           frame |-> <<54, 0, 1>>],
       [type |-> "DeviceIdentification", frame |-> <<144, 0, 2>>],
       [type |-> "SetRudderGain",       frame |-> <<145, 0, 3>>] >>

Refs == 1..Len(ReferenceFrames)

\* the dispatch table: command byte -> datagram type and data length
Commands == {ReferenceFrames[i].frame[1] : i \in Refs}

RefOf(cmd) == CHOOSE i \in Refs : ReferenceFrames[i].frame[1] = cmd

TypeOf(cmd) == ReferenceFrames[RefOf(cmd)].type

CmdOf(type) ==
    ReferenceFrames[CHOOSE i \in Refs : ReferenceFrames[i].type = type].frame[1]

\* the length-encoding byte: the low nibble counts the payload bytes
\* beyond the first, the high nibble is free for the datagram
LowNibble(b) == b % 16

HighNibble(b) == b \div 16

\* the data length the table expects for a command
DataLength(cmd) == LowNibble(ReferenceFrames[RefOf(cmd)].frame[2])

\* the total length of a frame with length-encoding byte attr
FrameLength(attr) == 3 + LowNibble(attr)

Payload(frame) == SubSeq(frame, 3, Len(frame))

\* the bidirectional value map of SetLampIntensity: intensity <-> raw code
LampCodes == [i \in 0..3 |-> 4 * i]

LampRawCodes == {LampCodes[i] : i \in DOMAIN LampCodes}

LampIntensity(raw) == CHOOSE i \in DOMAIN LampCodes : LampCodes[i] = raw

\* the verdict on the declared data length of a frame of a known command
VerifyDataLengthMut(declared, expected) ==
    IF declared < expected THEN "TooMuchData"
    ELSE IF declared > expected THEN "NotEnoughData"
    ELSE "ok"

VerifyDataLength(declared, expected) ==
    IF declared < expected THEN "NotEnoughData"
    ELSE IF declared > expected THEN "TooMuchData"
    ELSE "ok"

\* the fields of a datagram from its payload: Depth carries a flags byte
\* and the depth as a 16 bit little-endian number, SetLampIntensity an
\* intensity through its value map; the other datagrams keep raw codes
FieldsOf(type, payload) ==
    IF type = "Depth"
    THEN [flags |-> payload[1], depth |-> payload[2] + 256 * payload[3]]
    ELSE IF type = "SetLampIntensity"
    THEN [intensity |-> LampIntensity(payload[1])]
    ELSE [raw |-> payload]

\* a raw code of the payload has no entry in its field's value map
FieldInvalid(type, payload) ==
    type = "SetLampIntensity" /\ payload[1] \notin LampRawCodes

NoDatagram == [type |-> "none"]

Failure(exc) == [kind |-> exc, dg |-> NoDatagram]

\* decode of one candidate frame: dispatch, length check, field rules
DecodeFrame(frame) ==
    IF frame[1] \notin Commands
    THEN Failure("DataNotRecognizedException")
    ELSE IF Len(frame) < 2 \/ Len(frame) < FrameLength(frame[2])
    THEN Failure("NotEnoughData")
    ELSE IF VerifyDataLength(LowNibble(frame[2]), DataLength(frame[1])) # "ok"
    THEN Failure(VerifyDataLength(LowNibble(frame[2]), DataLength(frame[1])))
    ELSE IF FieldInvalid(TypeOf(frame[1]), Payload(frame))
    THEN Failure("DataValidationException")
    ELSE [kind |-> "ok",
          dg |-> [type |-> TypeOf(frame[1]),
                  attr |-> HighNibble(frame[2]),
                  fields |-> FieldsOf(TypeOf(frame[1]), Payload(frame))]]

\* the payload of a datagram: the inverse of FieldsOf
PayloadOfMut(dg) ==
    IF dg.type = "Depth"
    THEN <<dg.fields.flags, dg.fields.depth \div 256, dg.fields.depth % 256>>
    ELSE IF dg.type = "SetLampIntensity"
    THEN <<LampCodes[dg.fields.intensity]>>
    ELSE dg.fields.raw

PayloadOf(dg) ==
    IF dg.type = "Depth"
    THEN <<dg.fields.flags, dg.fields.depth % 256, dg.fields.depth \div 256>>
    ELSE IF dg.type = "SetLampIntensity"
    THEN <<LampCodes[dg.fields.intensity]>>
    ELSE dg.fields.raw

\* encode (get_seatalk_datagram): command byte, length-encoding byte,
\* payload
EncodeDatagram(dg) ==
    <<CmdOf(dg.type), 16 * dg.attr + DataLength(CmdOf(dg.type))>> \o PayloadOf(dg)

\* a frame whose length-encoding byte declares one payload byte fewer, or
\* one more, than frame f has
Shorter(f) == <<f[1], f[2] - 1>> \o SubSeq(f, 3, Len(f) - 1)

Longer(f) == <<f[1], f[2] + 1>> \o SubSeq(f, 3, Len(f)) \o <<0>>

\* the frames a bus delivers in the model: the reference frames, their
\* shorter and longer variants, the frames of test_not_enough_data,
\* test_too_much_data and test_not_recognized, an unknown command between
\* the known ones, and a lamp frame with an unmapped raw code
RawFrames ==
    {ReferenceFrames[i].frame : i \in Refs}
    \cup {Shorter(ReferenceFrames[i].frame) :
              i \in {j \in Refs : LowNibble(ReferenceFrames[j].frame[2]) > 0}}
    \cup {Longer(ReferenceFrames[i].frame) : i \in Refs}
    \cup {<<0, 1, 0, 0>>, <<0, 3, 0, 0, 0, 0>>, <<255, 3, 0, 0, 0, 0>>,
          <<2, 0, 0>>, <<48, 0, 9>>}

\* the datagrams a producer constructs in the model
ValidDatagrams ==
    {DecodeFrame(ReferenceFrames[i].frame).dg : i \in Refs}
    \cup {[type |-> "SetLampIntensity", attr |-> 0, fields |-> [intensity |-> i]] :
              i \in DOMAIN LampCodes}
    \cup {[type |-> "Depth", attr |-> 0, fields |-> [flags |-> 0, depth |-> v]] :
              v \in {0, 255, 256, 65535}}

SeatalkInit ==
    /\ st_bytes = <<>>
    /\ st_fed = <<>>
    /\ st_out = <<>>

\* the bus delivers frame f
StFeed(f) ==
    /\ Len(st_fed) < MaxFrames
    /\ st_bytes' = st_bytes \o f
    /\ st_fed' = Append(st_fed, [frame |-> f, sent |-> NoDatagram])
    /\ UNCHANGED <<st_out, fileVars, tcpVars, nmeaVars>>

\* a producer encodes datagram dg and the frame goes onto the stream
StSend(dg) ==
    /\ Len(st_fed) < MaxFrames
    /\ st_bytes' = st_bytes \o EncodeDatagram(dg)
    /\ st_fed' = Append(st_fed, [frame |-> EncodeDatagram(dg), sent |-> dg])
    /\ UNCHANGED <<st_out, fileVars, tcpVars, nmeaVars>>

\* frame accumulation: the command byte, the length-encoding byte and the
\* payload it declares, or what is left of the stream if that is less
Accumulate(bytes) ==
    SubSeq(bytes, 1,
           Min(Len(bytes), IF Len(bytes) < 2 THEN 1 ELSE FrameLength(bytes[2])))

\* the bytes a decode attempt takes off the stream: the frame, whatever
\* the outcome (the offending frame is discarded)
ConsumedMut(frame, outcome) ==
    IF outcome = "DataNotRecognizedException" THEN 1 ELSE Len(frame)

Consumed(frame, outcome) == Len(frame)

\* receive_data_gram: accumulate one frame and hand it to the codec
StReceive ==
    /\ st_bytes # <<>>
    /\ LET frame == Accumulate(st_bytes)
           out == DecodeFrame(frame)
       IN  /\ st_bytes' = SubSeq(st_bytes, Consumed(frame, out.kind) + 1,
                                 Len(st_bytes))
           /\ st_out' = Append(st_out, [kind |-> out.kind, dg |-> out.dg,
                                        frame |-> frame])
    /\ UNCHANGED <<st_fed, fileVars, tcpVars, nmeaVars>>

\* ------------------------------------------------------ specification
Init == TcpInit /\ NmeaInit /\ FileInit /\ SeatalkInit

\* the life cycle of a TCPServer or TCPClient: connections, sessions,
\* write tasks, cancel(); one task calls write()
Next ==
    \/ Initialize
    \/ Accept
    \/ \E c \in Conns : ServeStart(c)
    \/ ConnectOk
    \/ ConnectFail
    \/ BackoffDone
    \/ \E c \in Conns, n \in 1..MaxChunkLen : RecvData(c, n)
    \/ \E c \in Conns : RecvEOF(c)
    \/ \E c \in Conns : RecvError(c)
    \/ \E c \in Conns : FinResume(c)
    \/ SupCancelled
    \/ \E w \in Conns : WGet(w)
    \/ \E w \in Conns : WSendDone(w)
    \/ \E w \in Conns : WSendFail(w)
    \/ \E w \in Conns : WCancelled(w)
    \/ WriteCall(1)
    \/ CancelCall
    \/ CancelReturn

Spec == Init /\ [][Next]_vars

\* the life cycle of a TCPClient alone
CliNext ==
    \/ Initialize
    \/ ConnectOk
    \/ ConnectFail
    \/ BackoffDone
    \/ \E c \in Conns, n \in 1..MaxChunkLen : RecvData(c, n)
    \/ \E c \in Conns : RecvEOF(c)
    \/ \E c \in Conns : RecvError(c)
    \/ \E c \in Conns : FinResume(c)
    \/ SupCancelled
    \/ \E w \in Conns : WGet(w)
    \/ \E w \in Conns : WSendDone(w)
    \/ \E w \in Conns : WSendFail(w)
    \/ \E w \in Conns : WCancelled(w)
    \/ WriteCall(1)
    \/ CancelCall
    \/ CancelReturn

CliInit == Init /\ kind = "client"

CliSpec == CliInit /\ [][CliNext]_vars

\* read() and write() callers on a TCPServer with connected peers
IONext ==
    \/ Initialize
    \/ Accept
    \/ \E c \in Conns : ServeStart(c)
    \/ \E c \in Conns, n \in 1..MaxChunkLen : RecvData(c, n)
    \/ \E w \in Conns : WGet(w)
    \/ \E w \in Conns : WSendDone(w)
    \/ \E t \in Callers, n \in 1..MaxReadLen : ReadCall(t, n)
    \/ \E t \in Callers : ReadResume(t)
    \/ \E t \in Callers : WriteCall(t)
    \/ \E t \in Callers : WriteResume(t)

IOInit == Init /\ kind = "server"

IOSpec == IOInit /\ [][IONext]_vars


\* the read loop of an NMEADevice over a transport with an encoding set
NmeaNext ==
    \/ \E b \in Bytes : NmeaRead(b)
    \/ NmeaPutResume
    \/ NmeaGet

NmeaInitial == Init /\ kind = "server"

NmeaSpec == NmeaInitial /\ [][NmeaNext]_vars

\* read() and write() calls on a File transport
FileNext ==
    \/ \E n \in 1..MaxReadLen : FileRead(n)
    \/ \E n \in 1..MaxChunkLen : FileWrite(n)

FileInitial == Init /\ kind = "server"

FileSpec == FileInitial /\ [][FileNext]_vars

\* a SeatalkDevice over a byte stream fed by a bus and by a producer
SeatalkNext ==
    \/ \E f \in RawFrames : StFeed(f)
    \/ \E dg \in ValidDatagrams : StSend(dg)
    \/ StReceive

SeatalkInitial == Init /\ kind = "server"

SeatalkSpec == SeatalkInitial /\ [][SeatalkNext]_vars

\* ============================================================ claims
\* a caller that owns the lock and is inside _read or _write (ready to
\* run it, or suspended in it)
InFlight(t) == cpc[t] \in {"r_in", "r_get", "w_in", "w_put"}

\* a slice in which _write ran: it appended to the write queue or dropped
WriteRan ==
    \/ wdrops' # wdrops
    \/ Len(write_queue') > Len(write_queue)

\* a slice in which _read ran: it took a chunk or bytes of the held block
ReadRan ==
    \/ Len(read_queue') < Len(read_queue)
    \/ temp_read_block' # temp_read_block

\* C1: on one Transport instance at most one backend operation (_read or
\* _write) is in flight at a time: whoever is inside _read or _write owns
\* the instance's one lock, and a slice that runs _write or _read is taken
\* only while no other caller is inside _read or _write.
C1_MutualExclusion ==
    /\ [](\A t \in Callers : InFlight(t) => lockHolder = t)
    /\ [][WriteRan => \A u \in Callers :
              InFlight(u) => cpc[u] = "w_in" /\ cpc'[u] = "idle"]_vars
    /\ [][ReadRan => \A u \in Callers :
              InFlight(u) => cpc[u] \in {"r_in", "r_get"} /\ lockHolder = u]_vars

\* C1 witness: a caller is suspended on the lock while another caller's
\* _read is in flight
C1_Witness ==
    \E t, u \in Callers :
        /\ t # u
        /\ cpc[t] \in {"r_lock", "w_lock"}
        /\ cpc[u] = "r_get"

\* C2: a write() on a socket Transport whose write queue is at capacity
\* returns without blocking in every reachable state, also while a read()
\* of another task is in flight waiting for inbound data: no writer is
\* ever suspended, with the write queue full, behind such a reader.
C2_FullWriteNeverBlocks ==
    \A t \in Callers :
        ~ /\ cpc[t] = "w_lock"
          /\ Len(write_queue) >= read_write_size
          /\ lockHolder # None
          /\ cpc[lockHolder] = "r_get"
          /\ read_queue = <<>>

\* cancel() has not been called
NoCancel == cancels = 0 /\ xpc = "idle"

\* C3: on a TCPClient, from initialize() until cancel() is called the
\* supervisor never terminates; a failed connection attempt or a failed
\* session is followed by the backoff sleep and the sleep by the next
\* attempt; an attempt that succeeds puts the peer into self.clients with
\* its session receiving, and the chunks it receives are appended to the
\* read queue (while that has room).
C3_SupervisorRetries ==
    /\ [](kind = "client" /\ initialized /\ NoCancel => SupAlive)
    /\ [][NoCancel /\ sup = "connecting" /\ sup' # sup =>
              \/ sup' = "sleeping"
              \/ /\ sup' = "serving"
                 /\ InList(clients', nconn')
                 /\ spc'[nconn'] = "recv"]_vars
    /\ [][NoCancel /\ sup = "sleeping" /\ sup' # sup => sup' = "connecting"]_vars
    /\ [][NoCancel /\ sup = "serving" /\ sup' # sup
              /\ \/ spc[nconn] = "recv" /\ closed'[nconn]
                 \/ spc[nconn] = "fin_wait" /\ sExc[nconn] = "OSError"
              => sup' = "sleeping"]_vars
    /\ [][NoCancel /\ sup = "serving" /\ nbytes' > nbytes
              /\ Len(read_queue) < read_write_size
              => read_queue' = Append(read_queue,
                                      [i \in 1..(nbytes' - nbytes) |-> nbytes + i])]_vars

\* C3 witness: after a session that failed, a later attempt succeeded and
\* the instance serves the new peer, whose chunks are in the read queue
C3_Witness ==
    /\ kind = "client"
    /\ NoCancel
    /\ nconn = 2
    /\ spc[1] = "done"
    /\ closed[1]
    /\ sup = "serving"
    /\ spc[2] = "recv"
    /\ clients = <<2>>
    /\ read_queue # <<>>

\* C4: after cancel() has returned on an initialized TCPServer no task of
\* the instance is running: not the accept loop, no _serve_client task, no
\* _write_task.
C4_ServerCancelStopsTasks ==
    kind = "server" /\ initialized /\ cancels >= 1 =>
        /\ acceptLoop # "running"
        /\ \A c \in Conns : ~ServeAlive(c) /\ ~WtAlive(c)

\* C5: after cancel() has returned on an initialized TCPClient the
\* supervisor and the write task have terminated and self.clients is
\* empty, whatever the supervisor was doing when cancel() was called.
C5_ClientCancelStopsAll ==
    kind = "client" /\ initialized /\ cancels >= 1 =>
        /\ sup = "terminated"
        /\ \A w \in Conns : ~WtAlive(w)
        /\ clients = <<>>

\* C6: a cancel() called after an earlier cancel() has returned completes
\* in the same slice without raising and leaves the peer set, the queues,
\* the task handles and every task's state as they were.
C6_CancelIdempotent ==
    [][cancels >= 1 /\ xpc = "idle" /\ (xpc' # xpc \/ cancels' # cancels) =>
          /\ xpc' = "idle"
          /\ cancels' = cancels + 1
          /\ UNCHANGED <<clients, read_queue, temp_read_block, write_queue,
                         write_task_handle, acceptLoop, sup, supPending, spc,
                         wt, wPending>>]_vars

\* C6 witness: a second cancel() has returned on an initialized instance
\* whose first cancel() stopped a running session
C6_Witness ==
    /\ kind = "client"
    /\ initialized
    /\ cancels = 2
    /\ xpc = "idle"
    /\ nconn >= 1
    /\ sup = "terminated"

\* no task of the instance is in the middle of connecting or disconnecting
\* a peer, and no write task died of a send error
Quiescent ==
    /\ \A c \in Conns : spc[c] \notin {"start", "fin_wait", "put_wait"}
    /\ \A w \in Conns : ~wPending[w] /\ wt[w] # "crashed"

\* C7: on a TCPServer, when a peer's session ends exactly that peer's
\* write task is cancelled and the write tasks of the other peers are left
\* alone, so that in every quiescent state the running write tasks are
\* those of the peers in self.clients.
C7_OwnWriteTaskCancelled ==
    /\ [][\A c \in Conns :
              kind = "server" /\ spc[c] = "recv" /\ spc'[c] \in {"fin_wait", "done"} =>
                  /\ wPending'[c] \/ WtDone(c)
                  /\ \A w \in Conns \ {c} : wPending'[w] = wPending[w]]_vars
    /\ [](kind = "server" /\ Quiescent =>
              {w \in Conns : WtAlive(w)} = {c \in Conns : InList(clients, c)})

\* C8: neither transport queue ever holds more than its capacity, no
\* _serve_client task and no writer is ever suspended in Queue.put, and a
\* chunk received while the read queue is full leaves the queue and every
\* session's position unchanged.
C8_QueuesBounded ==
    /\ [](/\ Len(read_queue) <= read_write_size
          /\ Len(write_queue) <= read_write_size
          /\ \A c \in Conns : spc[c] # "put_wait"
          /\ \A t \in Callers : cpc[t] # "w_put")
    /\ [][nbytes' > nbytes /\ Len(read_queue) >= read_write_size =>
              read_queue' = read_queue /\ spc' = spc]_vars

\* C8 witness: with two peers receiving, a chunk was discarded at a full
\* read queue
C8_Witness ==
    /\ rdrops > 0
    /\ Len(read_queue) = read_write_size
    /\ spc[1] = "recv"
    /\ spc[2] = "recv"


\* line number k has been put into the Device's output queue
InPublished(k) == \E i \in 1..Len(published) : published[i] = k

\* C9: in the read loop of the NMEADevice a line whose decode fails never
\* halts the stream: the task does not die, the line is discarded (nothing
\* is put into the output queue), the transport is flushed, the loop is
\* back at reading, and every line with a valid checksum that comes after
\* a failed one is published by the time the loop reads on.
C9_BadLineDoesNotHalt ==
    /\ [](npc # "dead")
    /\ [][Len(lines') > Len(lines) /\ ~VerifyChecksum(lines'[Len(lines')]) =>
              /\ flushes' = flushes + 1
              /\ dev_read_queue' = dev_read_queue
              /\ published' = published
              /\ npc' = "read"
              /\ received' = <<>>]_vars
    /\ [](npc = "read" =>
              \A j, k \in 1..Len(lines) :
                  j < k /\ ~VerifyChecksum(lines[j]) /\ VerifyChecksum(lines[k])
                      => InPublished(k))

\* C9 witness: a line failed its checksum, the transport was flushed and a
\* later line with a valid checksum is published
C9_Witness ==
    /\ flushes > 0
    /\ \E j, k \in 1..Len(lines) :
           /\ j < k
           /\ ~VerifyChecksum(lines[j])
           /\ VerifyChecksum(lines[k])
           /\ InPublished(k)

\* C10: a newline-terminated line is published iff its checksum verifies:
\* no published line fails the checksum, and every line with a valid
\* checksum, its tag known or not, has been published once the loop is
\* past the first put for it.
C10_PublishedIffChecksum ==
    \A k \in 1..Len(lines) :
        /\ InPublished(k) => VerifyChecksum(lines[k])
        /\ VerifyChecksum(lines[k]) /\ ~(k = Len(lines) /\ npc = "put1")
               => InPublished(k)

\* C10 witness: a line with a valid checksum and an unknown tag is
\* published, a line with a failed checksum is not
C10_Witness ==
    \E j, k \in 1..Len(lines) :
        /\ ~VerifyChecksum(lines[j])
        /\ ~InPublished(j)
        /\ VerifyChecksum(lines[k])
        /\ ~TagKnown(lines[k])
        /\ InPublished(k)


\* C11: the Device's output queue keeps the receive order: the items are
\* published in the order their lines were completed, the queue holds the
\* most recently published items in that same order, each with the bytes
\* of its line, so no item of a later line is ahead of an item of an
\* earlier line.
C11_PublishOrder ==
    /\ \A i, j \in 1..Len(published) : i < j => published[i] <= published[j]
    /\ Len(dev_read_queue) <= Len(published)
    /\ \A i \in 1..Len(dev_read_queue) :
           /\ dev_read_queue[i].line =
                  published[Len(published) - Len(dev_read_queue) + i]
           /\ dev_read_queue[i].data = lines[dev_read_queue[i].line]

\* C11 witness: the queue holds items of two different lines, after a
\* consumer has already taken one
C11_Witness ==
    /\ Len(dev_read_queue) < Len(published)
    /\ \E i, j \in 1..Len(dev_read_queue) :
           i < j /\ dev_read_queue[i].line < dev_read_queue[j].line

\* C12: the read loop never suspends in a put on the full output queue: a
\* line decoded while the queue is at capacity is dropped and the loop is
\* back at reading.
C12_FullQueueDrops ==
    ~ /\ npc \in {"put1", "put2"}
      /\ Len(dev_read_queue) >= DeviceQueueSize

\* C19: a line that passes checksum verification while the output queue
\* has room for more than one item is put into the queue exactly once.
C19_PublishedExactlyOnce ==
    [][/\ Len(lines') > Len(lines)
       /\ VerifyChecksum(lines'[Len(lines')])
       /\ Len(dev_read_queue) + 1 < DeviceQueueSize
       => /\ Len(published') = Len(published) + 1
          /\ Cardinality({i \in 1..Len(published') :
                              published'[i] = Len(lines')}) = 1]_vars

\* C20: cancel() on a TCPClient never raises, in whatever life-cycle state
\* it is called, also before initialize() has spawned the supervisor.
C20_CancelNeverRaises ==
    kind = "client" => xpc # "raised"

\* C16: a write task that has taken a chunk from the write queue is not
\* cancelled before its broadcast is complete: no session's finally block
\* requests the cancellation of a write task suspended in sendall while a
\* peer that is still being served has not been sent the chunk.
C16_BroadcastCompletes ==
    [][\A w \in Conns :
          wt[w] = "send" /\ ~wPending[w] /\ wPending'[w] =>
              \A i \in wIdx[w]..Len(clients) : spc'[clients[i]] # "recv"]_vars

\* concatenation of a sequence of byte strings
RECURSIVE Concat(_)
Concat(ss) == IF ss = <<>> THEN <<>> ELSE Head(ss) \o Concat(Tail(ss))

\* the bytes the read() calls have returned, in completion order
ReturnedBytes == Concat([i \in 1..Len(returned) |-> returned[i].data])

IsPrefix(a, b) == Len(a) <= Len(b) /\ a = SubSeq(b, 1, Len(a))

\* the bytes _read holds for the call in flight, or none
HeldBytes ==
    IF lockHolder # None /\ cpc[lockHolder] \in {"r_in", "r_get"}
    THEN cBuf[lockHolder] ELSE <<>>

C18_FileReadsArePrefix ==
    /\ Len(file_returned) <= Len(file_content)
    /\ file_returned = SubSeq(file_content, 1, Len(file_returned))

\* every decode attempt took exactly the frame that was put on the
\* stream at its position
Aligned ==
    /\ Len(st_out) <= Len(st_fed)
    /\ \A i \in 1..Len(st_out) : st_out[i].frame = st_fed[i].frame

\* C13: a frame of a known command that declares one payload byte fewer
\* than the command's data length fails with NotEnoughData, one that
\* declares one more fails with TooMuchData; neither produces a datagram,
\* and the attempt takes just that frame off the stream, so the failure
\* does not reach the next attempt.
C13_LengthMismatch ==
    /\ Aligned
    /\ \A i \in 1..Len(st_out) :
           st_out[i].frame[1] \in Commands =>
               /\ LowNibble(st_out[i].frame[2]) + 1 = DataLength(st_out[i].frame[1])
                      => st_out[i].kind = "NotEnoughData" /\ st_out[i].dg = NoDatagram
               /\ LowNibble(st_out[i].frame[2]) = DataLength(st_out[i].frame[1]) + 1
                      => st_out[i].kind = "TooMuchData" /\ st_out[i].dg = NoDatagram

\* C13 witness: the frame of test_too_much_data failed with TooMuchData,
\* then the frame of test_not_enough_data with NotEnoughData
C13_Witness ==
    /\ Len(st_out) = 2
    /\ st_out[1].frame = <<0, 3, 0, 0, 0, 0>>
    /\ st_out[1].kind = "TooMuchData"
    /\ st_out[2].frame = <<0, 1, 0, 0>>
    /\ st_out[2].kind = "NotEnoughData"
    /\ st_bytes = <<>>

\* C14: a frame whose command byte is not in the dispatch table fails
\* with DataNotRecognizedException and produces no datagram, and the
\* Device goes on: the next receive takes the next frame of the stream,
\* and decodes it if it is the frame of a valid datagram.
C14_UnknownCommandSurvives ==
    /\ Aligned
    /\ \A i \in 1..Len(st_out) :
           /\ st_out[i].frame[1] \notin Commands
                  => /\ st_out[i].kind = "DataNotRecognizedException"
                     /\ st_out[i].dg = NoDatagram
           /\ i > 1 /\ st_out[i - 1].kind = "DataNotRecognizedException"
                    /\ st_fed[i].sent # NoDatagram
                  => st_out[i].kind = "ok" /\ st_out[i].dg = st_fed[i].sent

\* C14 witness: after the frame of test_not_recognized the next receive
\* decoded the frame of an encoded datagram
C14_Witness ==
    /\ Len(st_out) = 2
    /\ st_out[1].frame = <<255, 3, 0, 0, 0, 0>>
    /\ st_out[1].kind = "DataNotRecognizedException"
    /\ st_fed[2].sent # NoDatagram
    /\ st_out[2].kind = "ok"
    /\ st_out[2].dg.type = "SetLampIntensity"

====
